---- MODULE Spec2Model ----
(***************************************************************************)
(* Model of Fireworks/Geometry/python/dumpFWRecoGeometry_cfg.py: a cmsRun  *)
(* configuration script that parses tag= and format= arguments, builds a   *)
(* cms.Process, dispatches on the tag in geoLoad and wires one of two      *)
(* dump producer/analyzer pairs.  One action per executed statement (or    *)
(* per dispatch branch of geoLoad); pc is the position in the script.      *)
(***************************************************************************)
EXTENDS Naturals, Sequences, FiniteSets, TLC

VARIABLES
    argv,        \* command line: optional tag= and format= values (<<>> = omitted)
    options,     \* the VarParsing object: options.tag, options.format
    process,     \* the job configuration object (cms.Process) being built
    tagInfoq,    \* module-level variable of line 104
    stdout,      \* lines printed so far, each a sequence of printed pieces
    exitStatus,  \* <<>> while running / finished normally, <<n>> after exit(n)
    pc,          \* position in the script
    trace        \* the statements executed so far, in order

vars == <<argv, options, process, tagInfoq, stdout, exitStatus, pc, trace>>

----------------------------------------------------------------------------
(* Bounds of the input space *)

NumUnknownTags == 6
NumOtherFormats == 4

UnknownTagPool ==
    <<"run1", "slhc", "", "SLHC ", "2016", "Slhcdb", "phaseIPixel", "Run2", "_SLHC">>

OtherFormatPool ==
    <<"tgeo", "", "TTREE", "TGEO", "ttree", "Tgeo", "TGeo ", "ROOT">>

----------------------------------------------------------------------------
(* Program constants *)

HelpExitStatus == 1
MaxEventsInput == 1
DumpLevel == 1

\* line 6: the names the enumeration is built from, in order
varTypeKeys == <<"Run1", "2015", "2019", "PhaseIPixel", "SLHCDB", "SLHC">>

\* lines 43 and 61: varType.valueForKey(varType.<name>), the string the tag
\* is compared with in the SLHCDB and SLHC branches
varTypeValueForKey(name) ==
    IF \E i \in 1..Len(varTypeKeys) : varTypeKeys[i] = name THEN <<name>> ELSE <<>>

\* variant: the registered default names another scenario
DefaultTagRun1 == "Run1"

DefaultTag == "2015"
DefaultFormat == "TTree"

Undef == [type |-> "undefined"]

FrontierConditions == "Configuration.StandardSequences.FrontierConditions_GlobalTag_cff"
GeometryDB == "Configuration.StandardSequences.GeometryDB_cff"
Reconstruction == "Configuration.StandardSequences.Reconstruction_cff"
Geometry2015 == "Configuration.Geometry.GeometryExtended2015Reco_cff"
Geometry2019 == "Configuration.Geometry.GeometryExtended2019Reco_cff"
GeometryPhaseIPixel == "Configuration.Geometry.GeometryExtendedPhaseIPixelReco_cff"
GeometrySLHCSimIdeal == "Configuration.Geometry.GeometrySLHCSimIdeal_cff"
GeometrySLHCReco == "Configuration.Geometry.GeometrySLHCReco_cff"

AutoCondMC == [kind |-> "autoCond", arg |-> "mc"]
Design42 == [kind |-> "literal", arg |-> "DESIGN42_V17::All"]
CffDefaultGT == [kind |-> "cff default", arg |-> ""]

SLHCDBConnect == "frontier://FrontierProd/CMS_COND_42X_GEOMETRY"

SLHCDBToGet ==
    << [record |-> "GeometryFileRcd",
        tag |-> "XMLFILE_Geometry_428SLHCYV0_Phase1_R30F12_HCal_Ideal_mc",
        connect |-> SLHCDBConnect],
       [record |-> "IdealGeometryRecord",
        tag |-> "TKRECO_Geometry_428SLHCYV0",
        connect |-> SLHCDBConnect],
       [record |-> "PGeometricDetExtraRcd",
        tag |-> "TKExtra_Geometry_428SLHCYV0",
        connect |-> SLHCDBConnect] >>

UsageText(keys) ==
    << <<"Usage: cmsRun loadConditions.py  tag=TAG ">>,
       <<"   tag=tagname">>,
       <<"       indentify geometry condition database tag">>,
       <<"      ">> \o keys,
       <<"">>,
       <<"   format=formatname">>,
       <<"       dump in plain TTree or in TGeo format, default is TTree">>,
       <<"">> >>

----------------------------------------------------------------------------
(* Helpers on the process object *)

NoProcess ==
    [ defined |-> FALSE, name |-> "", source |-> Undef, maxEvents |-> Undef,
      loads |-> <<>>, GlobalTag |-> Undef, trackerSLHCGeometry |-> Undef,
      esProducers |-> <<>>, dump |-> Undef, p |-> Undef ]

\* process.load(cff): the module is imported and its objects attached
Load(proc, cff) == [proc EXCEPT !.loads = Append(@, cff)]

\* process.GlobalTag.globaltag = value
SetGlobalTag(proc, value) == [proc EXCEPT !.GlobalTag.globaltag = value]

\* GlobalTag(process.GlobalTag, conditions, custom) of lines 35 and 40
GlobalTagFn(gt, conditions, custom) ==
    [gt EXCEPT !.globaltag = [kind |-> "GlobalTag()", arg |-> conditions],
               !.toGet = IF custom = "" THEN @
                         ELSE Append(@, [record |-> custom, tag |-> custom,
                                         connect |-> ""])]

Step(label) == trace' = Append(trace, label)

----------------------------------------------------------------------------
(* Initial state: lines 1-90 have run; options are registered with their   *)
(* defaults and the command line is any of the bounded inputs.             *)

KnownTagArgs == {varTypeKeys[i] : i \in 1..Len(varTypeKeys)}
UnknownTagArgs == {UnknownTagPool[i] : i \in 1..NumUnknownTags}
FormatArgs == {"TTree", "TGeo"} \cup {OtherFormatPool[i] : i \in 1..NumOtherFormats}

Optional(S) == {<<>>} \cup {<<x>> : x \in S}

Init ==
    /\ argv \in [tag : Optional(KnownTagArgs \cup UnknownTagArgs),
                 format : Optional(FormatArgs)]
    /\ options = [tag |-> DefaultTag, format |-> DefaultFormat]
    /\ process = NoProcess
    /\ tagInfoq = Undef
    /\ stdout = <<>>
    /\ exitStatus = <<>>
    /\ pc = "parseArguments"
    /\ trace = <<>>

----------------------------------------------------------------------------
(* Module-level statements, lines 92-99 *)

\* line 92: a given key=value replaces the registered default
ParseArguments ==
    /\ pc = "parseArguments"
    /\ options' = [tag |-> IF argv.tag = <<>> THEN options.tag ELSE argv.tag[1],
                   format |-> IF argv.format = <<>> THEN options.format
                              ELSE argv.format[1]]
    /\ pc' = "printLoading"
    /\ Step("parseArguments")
    /\ UNCHANGED <<argv, process, tagInfoq, stdout, exitStatus>>

\* line 94
PrintLoading ==
    /\ pc = "printLoading"
    /\ stdout' = Append(stdout,
                        <<"Loading configuration for tag ", options.tag, "...\n">>)
    /\ pc' = "newProcess"
    /\ Step("print")
    /\ UNCHANGED <<argv, options, process, tagInfoq, exitStatus>>

\* line 97
NewProcess ==
    /\ pc = "newProcess"
    /\ process' = [NoProcess EXCEPT !.defined = TRUE, !.name = "DUMP"]
    /\ pc' = "setSource"
    /\ Step("process")
    /\ UNCHANGED <<argv, options, tagInfoq, stdout, exitStatus>>

\* variant: geoLoad is called right after the source is set, before maxEvents
SetSourceThenGeoLoad ==
    /\ pc = "setSource"
    /\ process' = [process EXCEPT !.source = [type |-> "EmptySource"]]
    /\ pc' = "callGeoLoad"
    /\ Step("source")
    /\ UNCHANGED <<argv, options, tagInfoq, stdout, exitStatus>>

\* line 98
SetSource ==
    /\ pc = "setSource"
    /\ process' = [process EXCEPT !.source = [type |-> "EmptySource"]]
    /\ pc' = "setMaxEvents"
    /\ Step("source")
    /\ UNCHANGED <<argv, options, tagInfoq, stdout, exitStatus>>

\* line 99
SetMaxEvents ==
    /\ pc = "setMaxEvents"
    /\ process' = [process EXCEPT
                     !.maxEvents = [type |-> "PSet", input |-> MaxEventsInput]]
    /\ pc' = "callGeoLoad"
    /\ Step("maxEvents")
    /\ UNCHANGED <<argv, options, tagInfoq, stdout, exitStatus>>

----------------------------------------------------------------------------
(* geoLoad, lines 19-72 *)

\* variant: one branch tests a misspelt tag
GeoLoadBranchTypo(score) ==
    IF score = "Run1" THEN "Run1"
    ELSE IF score = "2015" THEN "2015"
    ELSE IF score = "2019" THEN "2019"
    ELSE IF score = "phaseIPixel" THEN "PhaseIPixel"
    ELSE IF <<score>> = varTypeValueForKey("SLHCDB") THEN "SLHCDB"
    ELSE IF <<score>> = varTypeValueForKey("SLHC") THEN "SLHC"
    ELSE "help"

\* the branch the if/elif chain of lines 22-72 takes for a tag, tested in
\* source order with Python's exact string equality
GeoLoadBranch(score) ==
    IF score = "Run1" THEN "Run1"
    ELSE IF score = "2015" THEN "2015"
    ELSE IF score = "2019" THEN "2019"
    ELSE IF score = "PhaseIPixel" THEN "PhaseIPixel"
    ELSE IF <<score>> = varTypeValueForKey("SLHCDB") THEN "SLHCDB"
    ELSE IF <<score>> = varTypeValueForKey("SLHC") THEN "SLHC"
    ELSE "help"

\* line 101: geoLoad(options.tag)
CallGeoLoad ==
    /\ pc = "callGeoLoad"
    /\ pc' = "geoLoadConditions"
    /\ Step("geoLoad:call")
    /\ UNCHANGED <<argv, options, process, tagInfoq, stdout, exitStatus>>

\* line 20: executed for every tag, before the dispatch
GeoLoadConditions ==
    /\ pc = "geoLoadConditions"
    /\ process' = [Load(process, FrontierConditions) EXCEPT
                     !.GlobalTag = [type |-> "GlobalTag", globaltag |-> CffDefaultGT,
                                    toGet |-> <<>>]]
    /\ pc' = "geoLoadDispatch"
    /\ Step("geoLoad:conditions")
    /\ UNCHANGED <<argv, options, tagInfoq, stdout, exitStatus>>

\* the common frame of a dispatch branch that configures the process
GeoLoadConfigure(branch, proc) ==
    /\ pc = "geoLoadDispatch"
    /\ GeoLoadBranch(options.tag) = branch
    /\ process' = proc
    /\ pc' = "geoLoadReturn"
    /\ Step("geoLoad:branch")
    /\ UNCHANGED <<argv, options, tagInfoq, stdout, exitStatus>>

\* lines 22-26
GeoLoadRun1 ==
    GeoLoadConfigure("Run1",
        Load(Load(SetGlobalTag(process, AutoCondMC), GeometryDB), Reconstruction))

\* lines 28-31
GeoLoad2015 ==
    GeoLoadConfigure("2015", Load(SetGlobalTag(process, AutoCondMC), Geometry2015))

\* variant: the 2019 branch carries the conditions of the PhaseIPixel branch
GeoLoad2019AutoMC ==
    GeoLoadConfigure("2019",
        Load([process EXCEPT
                !.GlobalTag = GlobalTagFn(@, "auto:mc", "")], Geometry2019))

\* lines 33-36
GeoLoad2019 ==
    GeoLoadConfigure("2019",
        Load([process EXCEPT
                !.GlobalTag = GlobalTagFn(@, "auto:upgrade2019", "")], Geometry2019))

\* lines 38-41
GeoLoadPhaseIPixel ==
    GeoLoadConfigure("PhaseIPixel",
        Load([process EXCEPT
                !.GlobalTag = GlobalTagFn(@, "auto:mc", "")], GeometryPhaseIPixel))

\* lines 43-59
GeoLoadSLHCDB ==
    GeoLoadConfigure("SLHCDB",
        [Load(Load(SetGlobalTag(process, Design42), GeometryDB), Reconstruction)
            EXCEPT !.GlobalTag.toGet = SLHCDBToGet])

\* variant: the SLHC branch stops before its last load and the alignment flag
GeoLoadSLHCPartial ==
    GeoLoadConfigure("SLHC",
        Load(Load(SetGlobalTag(process, AutoCondMC), GeometrySLHCSimIdeal),
             GeometrySLHCReco))

\* lines 61-69
GeoLoadSLHC ==
    GeoLoadConfigure("SLHC",
        [Load(Load(Load(SetGlobalTag(SetGlobalTag(process, AutoCondMC), AutoCondMC),
                        GeometrySLHCSimIdeal), GeometrySLHCReco), Reconstruction)
            EXCEPT !.trackerSLHCGeometry = [type |-> "module",
                                            applyAlignment |-> FALSE]])

\* variant: the else branch prints the usage text but does not exit
GeoLoadElseNoExit ==
    /\ pc = "geoLoadDispatch"
    /\ GeoLoadBranch(options.tag) = "help"
    /\ stdout' = stdout \o UsageText(varTypeKeys)
    /\ pc' = "geoLoadReturn"
    /\ Step("geoLoad:else")
    /\ UNCHANGED <<argv, options, process, tagInfoq, exitStatus>>

\* lines 71-72: the else branch calls help()
GeoLoadElse ==
    /\ pc = "geoLoadDispatch"
    /\ GeoLoadBranch(options.tag) = "help"
    /\ pc' = "help"
    /\ Step("geoLoad:else")
    /\ UNCHANGED <<argv, options, process, tagInfoq, stdout, exitStatus>>

\* variant: help() exits with status 0
HelpExitZero ==
    /\ pc = "help"
    /\ stdout' = stdout \o UsageText(varTypeKeys)
    /\ exitStatus' = <<0>>
    /\ pc' = "exited"
    /\ Step("help")
    /\ UNCHANGED <<argv, options, process, tagInfoq>>

\* lines 8-17: help() prints the usage text and exits with status 1
Help ==
    /\ pc = "help"
    /\ stdout' = stdout \o UsageText(varTypeKeys)
    /\ exitStatus' = <<HelpExitStatus>>
    /\ pc' = "exited"
    /\ Step("help")
    /\ UNCHANGED <<argv, options, process, tagInfoq>>

\* geoLoad falls off the end of its branch and returns to line 101
GeoLoadReturn ==
    /\ pc = "geoLoadReturn"
    /\ pc' = "tagInfoq"
    /\ Step("geoLoad:return")
    /\ UNCHANGED <<argv, options, process, tagInfoq, stdout, exitStatus>>

----------------------------------------------------------------------------
(* Output wiring, lines 104-116 *)

\* line 104
SetTagInfoq ==
    /\ pc = "tagInfoq"
    /\ tagInfoq' = [type |-> "string", value |-> options.tag]
    /\ pc' = "wire"
    /\ Step("tagInfoq")
    /\ UNCHANGED <<argv, options, process, stdout, exitStatus>>

\* variant: the format test ignores case
IsTGeoIgnoreCase(format) == format \in {"TGeo", "tgeo", "TGEO", "Tgeo"}

\* line 106: the test that selects the TGeo pair
IsTGeo(format) == format = "TGeo"

\* variant: the TGeo producer is paired with the TTree analyzer
WireTGeoMixedPair ==
    /\ pc = "wire"
    /\ IsTGeo(options.format)
    /\ process' = [process EXCEPT
                     !.esProducers = Append(@, "FWTGeoRecoGeometryESProducer"),
                     !.dump = [type |-> "DumpFWRecoGeometry", level |-> DumpLevel,
                               tagInfo |-> options.tag]]
    /\ pc' = "path"
    /\ Step("wire")
    /\ UNCHANGED <<argv, options, tagInfoq, stdout, exitStatus>>

\* lines 106-108
WireTGeo ==
    /\ pc = "wire"
    /\ IsTGeo(options.format)
    /\ process' = [process EXCEPT
                     !.esProducers = Append(@, "FWTGeoRecoGeometryESProducer"),
                     !.dump = [type |-> "DumpFWTGeoRecoGeometry"]]
    /\ pc' = "path"
    /\ Step("wire")
    /\ UNCHANGED <<argv, options, tagInfoq, stdout, exitStatus>>

\* lines 109-114
WireTTree ==
    /\ pc = "wire"
    /\ ~IsTGeo(options.format)
    /\ process' = [process EXCEPT
                     !.esProducers = Append(@, "FWRecoGeometryESProducer"),
                     !.dump = [type |-> "DumpFWRecoGeometry", level |-> DumpLevel,
                               tagInfo |-> options.tag]]
    /\ pc' = "path"
    /\ Step("wire")
    /\ UNCHANGED <<argv, options, tagInfoq, stdout, exitStatus>>

\* variant: the path is created without the dump module
DefinePathEmpty ==
    /\ pc = "path"
    /\ process' = [process EXCEPT !.p = [type |-> "Path", modules |-> <<>>]]
    /\ pc' = "done"
    /\ Step("path")
    /\ UNCHANGED <<argv, options, tagInfoq, stdout, exitStatus>>

\* line 116
DefinePath ==
    /\ pc = "path"
    /\ process' = [process EXCEPT !.p = [type |-> "Path", modules |-> <<process.dump>>]]
    /\ pc' = "done"
    /\ Step("path")
    /\ UNCHANGED <<argv, options, tagInfoq, stdout, exitStatus>>

----------------------------------------------------------------------------

Next ==
    \/ ParseArguments
    \/ PrintLoading
    \/ NewProcess
    \/ SetSource
    \/ SetMaxEvents
    \/ CallGeoLoad
    \/ GeoLoadConditions
    \/ GeoLoadRun1
    \/ GeoLoad2015
    \/ GeoLoad2019
    \/ GeoLoadPhaseIPixel
    \/ GeoLoadSLHCDB
    \/ GeoLoadSLHC
    \/ GeoLoadElse
    \/ Help
    \/ GeoLoadReturn
    \/ SetTagInfoq
    \/ WireTGeo
    \/ WireTTree
    \/ DefinePath

Spec == Init /\ [][Next]_vars

----------------------------------------------------------------------------
(* Vocabulary of the properties *)

SixKnownTags == {"Run1", "2015", "2019", "PhaseIPixel", "SLHCDB", "SLHC"}

Done == pc = "done"
Exited == pc = "exited"
Terminated == Done \/ Exited

\* geoLoad has run to the end of a configuring branch
GeoLoadReturned == pc \in {"geoLoadReturn", "tagInfoq", "wire", "path", "done"}

UsagePrinted ==
    \E i \in 1..Len(stdout) : stdout[i] = <<"Usage: cmsRun loadConditions.py  tag=TAG ">>

\* the module loads geoLoad made after the common conditions load of line 20
GeometryLoads ==
    SelectSeq(process.loads,
              LAMBDA m : m # "Configuration.StandardSequences.FrontierConditions_GlobalTag_cff")

\* reference table of the scenario rows
RefGlobalTagSetting(tag) ==
    CASE tag = "Run1" -> [kind |-> "autoCond", arg |-> "mc"]
      [] tag = "2015" -> [kind |-> "autoCond", arg |-> "mc"]
      [] tag = "2019" -> [kind |-> "GlobalTag()", arg |-> "auto:upgrade2019"]
      [] tag = "PhaseIPixel" -> [kind |-> "GlobalTag()", arg |-> "auto:mc"]
      [] tag = "SLHCDB" -> [kind |-> "literal", arg |-> "DESIGN42_V17::All"]
      [] tag = "SLHC" -> [kind |-> "autoCond", arg |-> "mc"]

RefGeometryLoads(tag) ==
    CASE tag = "Run1" -> <<"Configuration.StandardSequences.GeometryDB_cff",
                           "Configuration.StandardSequences.Reconstruction_cff">>
      [] tag = "2015" -> <<"Configuration.Geometry.GeometryExtended2015Reco_cff">>
      [] tag = "2019" -> <<"Configuration.Geometry.GeometryExtended2019Reco_cff">>
      [] tag = "PhaseIPixel" ->
            <<"Configuration.Geometry.GeometryExtendedPhaseIPixelReco_cff">>
      [] tag = "SLHCDB" -> <<"Configuration.StandardSequences.GeometryDB_cff",
                             "Configuration.StandardSequences.Reconstruction_cff">>
      [] tag = "SLHC" -> <<"Configuration.Geometry.GeometrySLHCSimIdeal_cff",
                           "Configuration.Geometry.GeometrySLHCReco_cff",
                           "Configuration.StandardSequences.Reconstruction_cff">>

RefToGetRecords(tag) ==
    IF tag = "SLHCDB"
    THEN <<"GeometryFileRcd", "IdealGeometryRecord", "PGeometricDetExtraRcd">>
    ELSE <<>>

RefTracker(tag) ==
    IF tag = "SLHC" THEN [type |-> "module", applyAlignment |-> FALSE]
    ELSE [type |-> "undefined"]

ToGetRecords == [i \in 1..Len(process.GlobalTag.toGet) |-> process.GlobalTag.toGet[i].record]

\* the scenario part of the configuration is exactly the row of `tag`
ScenarioRowAttached(tag) ==
    /\ process.GlobalTag.type = "GlobalTag"
    /\ process.GlobalTag.globaltag = RefGlobalTagSetting(tag)
    /\ GeometryLoads = RefGeometryLoads(tag)
    /\ ToGetRecords = RefToGetRecords(tag)
    /\ process.trackerSLHCGeometry = RefTracker(tag)

\* the two producer/analyzer pairs
RefProducer(variant) ==
    IF variant = "TGeo" THEN "FWTGeoRecoGeometryESProducer" ELSE "FWRecoGeometryESProducer"

RefAnalyzer(variant, tag) ==
    IF variant = "TGeo" THEN [type |-> "DumpFWTGeoRecoGeometry"]
    ELSE [type |-> "DumpFWRecoGeometry", level |-> 1, tagInfo |-> tag]

PairAttached(variant, tag) ==
    /\ process.esProducers = <<RefProducer(variant)>>
    /\ process.dump = RefAnalyzer(variant, tag)

\* the whole finished configuration for a known tag and a pair
FinishedConfiguration(tag, variant) ==
    /\ process.defined /\ process.name = "DUMP"
    /\ process.source = [type |-> "EmptySource"]
    /\ process.maxEvents = [type |-> "PSet", input |-> 1]
    /\ process.loads = <<"Configuration.StandardSequences.FrontierConditions_GlobalTag_cff">>
                          \o RefGeometryLoads(tag)
    /\ ScenarioRowAttached(tag)
    /\ PairAttached(variant, tag)
    /\ process.p = [type |-> "Path", modules |-> <<RefAnalyzer(variant, tag)>>]

GivenTag == argv.tag[1]
GivenFormat == argv.format[1]

----------------------------------------------------------------------------
\* C1: a given tag outside the six known tags never gets past geoLoad: the run
\* ends exited with status 1 after the usage text was printed; a given known
\* tag never prints usage, never enters help and never exits with status 1.
C1_UnknownTagUsageExit ==
    argv.tag # <<>> =>
        /\ GivenTag \notin SixKnownTags =>
              /\ ~GeoLoadReturned
              /\ Terminated => (Exited /\ exitStatus = <<1>> /\ UsagePrinted)
              /\ exitStatus # <<>> => UsagePrinted
        /\ GivenTag \in SixKnownTags =>
              /\ ~UsagePrinted
              /\ exitStatus = <<>>
              /\ pc \notin {"help", "exited"}

C1_Witness ==
    /\ Exited /\ argv.tag = <<"slhc">> /\ exitStatus = <<1>> /\ UsagePrinted

\* C2: once geoLoad has returned for a known tag, the global-tag setting, the
\* ordered geometry loads, toGet and trackerSLHCGeometry are exactly the
\* reference row of that tag and nothing of another row.
C2_ReferenceTable ==
    (GeoLoadReturned /\ options.tag \in SixKnownTags) => ScenarioRowAttached(options.tag)

C2_Witness ==
    /\ Done /\ options.tag = "SLHCDB" /\ Len(process.GlobalTag.toGet) = 3

\* C3: a run that completes has exactly one producer and one analyzer, and
\* they are a matching pair: the TGeo pair for format "TGeo", the TTree pair
\* for format "TTree"; at no time are two producers or a mixed pair attached.
C3_ExactlyOnePair ==
    /\ Done =>
          /\ PairAttached("TGeo", options.tag) \/ PairAttached("TTree", options.tag)
          /\ options.format = "TGeo" => PairAttached("TGeo", options.tag)
          /\ options.format = "TTree" => PairAttached("TTree", options.tag)
    /\ Len(process.esProducers) <= 1
    /\ process.dump # [type |-> "undefined"] =>
          \E v \in {"TGeo", "TTree"} : PairAttached(v, options.tag)

C3_Witness ==
    /\ Done /\ argv.format = <<"TGeo">>
    /\ process.esProducers = <<"FWTGeoRecoGeometryESProducer">>

\* what geoLoad attaches: loads, GlobalTag, trackerSLHCGeometry
GeoLoadAttachedNothing ==
    /\ process.loads = <<>>
    /\ process.GlobalTag = [type |-> "undefined"]
    /\ process.trackerSLHCGeometry = [type |-> "undefined"]

GeoLoadAttachedOnlyConditions ==
    /\ process.loads = <<"Configuration.StandardSequences.FrontierConditions_GlobalTag_cff">>
    /\ process.GlobalTag =
          [type |-> "GlobalTag", globaltag |-> [kind |-> "cff default", arg |-> ""],
           toGet |-> <<>>]
    /\ process.trackerSLHCGeometry = [type |-> "undefined"]

GeoLoadAttachedComplete ==
    /\ options.tag \in SixKnownTags
    /\ process.loads = <<"Configuration.StandardSequences.FrontierConditions_GlobalTag_cff">>
                          \o RefGeometryLoads(options.tag)
    /\ ScenarioRowAttached(options.tag)

\* C4 (as stated): when the script has finished or terminated, geoLoad has
\* attached either the complete scenario of the tag or nothing at all.
C4_AllOrNothing ==
    Terminated => (GeoLoadAttachedComplete \/ GeoLoadAttachedNothing)

\* C4 (amended): when the script has finished or terminated, geoLoad has
\* attached either the complete scenario of the tag or only the common
\* conditions module of line 20 with its default global tag; the latter
\* exactly when the tag is unrecognized.
C4_AllOrConditionsOnly ==
    Terminated =>
        /\ GeoLoadAttachedComplete \/ GeoLoadAttachedOnlyConditions
        /\ GeoLoadAttachedOnlyConditions <=> options.tag \notin SixKnownTags
        /\ GeoLoadAttachedOnlyConditions <=> Exited

C4_Witness ==
    /\ Exited /\ options.tag = "2016" /\ GeoLoadAttachedOnlyConditions

\* C5: a format other than "TGeo" causes no exit and no error, and with a
\* known tag the finished configuration is the one format "TTree" gives for
\* that tag; with an unknown tag the run ends as it does for "TTree", exited
\* by help with no output wiring.
C5_OtherFormatsAreTTree ==
    (argv.format # <<>> /\ GivenFormat # "TGeo") =>
        /\ Done => FinishedConfiguration(options.tag, "TTree")
        /\ Exited => options.tag \notin SixKnownTags /\ process.esProducers = <<>>
        /\ pc = "wire" => ENABLED WireTTree
        /\ pc = "path" => PairAttached("TTree", options.tag)

C5_Witness ==
    /\ Done /\ argv.format = <<"tgeo">> /\ options.tag = "2019"
    /\ PairAttached("TTree", "2019")

\* C6: with the tag omitted the finished configuration is that of tag 2015
\* (for the pair the format selects) and help is never reached; with the
\* format omitted the finished configuration is that of format TTree.
C6_Defaults ==
    /\ argv.tag = <<>> =>
          /\ pc \notin {"help", "exited"} /\ ~UsagePrinted /\ exitStatus = <<>>
          /\ Done => \/ argv.format = <<"TGeo">> /\ FinishedConfiguration("2015", "TGeo")
                     \/ argv.format # <<"TGeo">> /\ FinishedConfiguration("2015", "TTree")
    /\ (argv.format = <<>> /\ Done) =>
          \E t \in SixKnownTags :
              /\ argv.tag \in {<<>>, <<t>>}
              /\ argv.tag = <<>> => t = "2015"
              /\ FinishedConfiguration(t, "TTree")

C6_Witness ==
    /\ Done /\ argv.tag = <<>> /\ argv.format = <<>>
    /\ FinishedConfiguration("2015", "TTree")

\* positions of a statement in the execution history
Occurrences(label) == {i \in 1..Len(trace) : trace[i] = label}
Executed(label) == Occurrences(label) # {}
Before(a, b) == \A i \in Occurrences(b) : \E j \in Occurrences(a) : j < i

\* C7: the process is created once, geoLoad is called once and only after the
\* process, its source and maxEvents exist, the output pair is attached only
\* after geoLoad has returned, the path is defined last, and no statement is
\* executed twice.
C7_Lifecycle ==
    /\ \A i, j \in 1..Len(trace) : trace[i] = trace[j] => i = j
    /\ Done => (Cardinality(Occurrences("process")) = 1
                /\ Cardinality(Occurrences("geoLoad:call")) = 1)
    /\ Before("process", "source") /\ Before("process", "maxEvents")
    /\ Before("process", "geoLoad:call")
    /\ Before("source", "geoLoad:call")
    /\ Before("maxEvents", "geoLoad:call")
    /\ Executed("geoLoad:call") =>
          /\ process.defined
          /\ process.source # [type |-> "undefined"]
          /\ process.maxEvents # [type |-> "undefined"]
    /\ Before("geoLoad:return", "wire")
    /\ (process.esProducers # <<>> \/ process.dump # [type |-> "undefined"]) =>
          Executed("geoLoad:return")
    /\ Executed("path") => (trace[Len(trace)] = "path" /\ Done)
    /\ process.p # [type |-> "undefined"] => Executed("wire")

C7_Witness ==
    /\ Done /\ Executed("geoLoad:return") /\ Executed("wire")
    /\ trace[Len(trace)] = "path"

\* C8: for a known tag and any format the finished configuration has source
\* EmptySource, maxEvents.input 1 and a path p holding exactly one module,
\* the dump analyzer the format selected.
C8_OneEventPipeline ==
    (Done /\ options.tag \in SixKnownTags) =>
        /\ process.source.type = "EmptySource"
        /\ process.maxEvents.input = 1
        /\ Len(process.p.modules) = 1
        /\ process.p.modules[1] = process.dump
        /\ process.p.modules[1].type =
              (IF options.format = "TGeo" THEN "DumpFWTGeoRecoGeometry"
               ELSE "DumpFWRecoGeometry")

C8_Witness ==
    /\ Done /\ options.tag = "PhaseIPixel" /\ options.format = "TTREE"
    /\ process.p.modules = <<[type |-> "DumpFWRecoGeometry", level |-> 1,
                              tagInfo |-> "PhaseIPixel"]>>

\* C9: with an unrecognized tag no output wiring ever happens: in every state
\* from the dispatch on, and at termination, there is no ESProducer, no
\* process.dump and no path p, whatever the format; the run never completes.
C9_NoWiringForUnknownTag ==
    (pc # "parseArguments" /\ options.tag \notin SixKnownTags) =>
        /\ process.esProducers = <<>>
        /\ process.dump = [type |-> "undefined"]
        /\ process.p = [type |-> "undefined"]
        /\ pc \notin {"tagInfoq", "wire", "path", "done"}
        /\ ~Executed("wire") /\ ~Executed("path")

C9_Witness ==
    /\ Exited /\ options.tag = "SLHC " /\ options.format = "TGeo"
    /\ process.esProducers = <<>> /\ process.p = [type |-> "undefined"]

\* the keys line of the usage text, when it was printed
PrintedKeys ==
    UNION {{stdout[i][k] : k \in 2..Len(stdout[i])} :
              i \in {j \in 1..Len(stdout) : stdout[j][1] = "      "}}

\* C10: geoLoad reaches a configuring branch exactly for the tags that are
\* keys of the enumeration, the six names the usage message prints; every
\* other string, differing in case or by a blank, reaches help.
C10_AcceptedTagsAreKeys ==
    /\ KnownTagArgs = SixKnownTags
    /\ Executed("geoLoad:branch") => options.tag \in SixKnownTags
    /\ Executed("geoLoad:else") => options.tag \notin SixKnownTags
    /\ pc = "geoLoadDispatch" =>
          (options.tag \in SixKnownTags <=> ~ENABLED GeoLoadElse)
    /\ UsagePrinted => PrintedKeys = SixKnownTags

C10_Witness ==
    /\ Exited /\ options.tag = "run1" /\ Executed("geoLoad:else")
    /\ PrintedKeys = SixKnownTags

====
